---- MODULE Spec2Model ----
(***************************************************************************)
(* Request admission and execution engine (src/src/request_queue.py) and   *)
(* the confirmation gate (src/src/mcps/base.py, src/src/mcps/registry.py). *)
(*                                                                         *)
(* Scheduling model.  Everything runs on one asyncio event loop.  A        *)
(* coroutine runs without interruption between two awaits that really      *)
(* suspend.  No code of RequestQueue awaits while it holds _lock, so the   *)
(* lock is free at every suspension point and `async with self._lock`      *)
(* never suspends: each locked section, together with the straight-line    *)
(* code around it, is one atomic action.  The worker suspends at the       *)
(* Notifier call, at the Executor call and at asyncio.sleep.               *)
(***************************************************************************)
EXTENDS Integers, Sequences, FiniteSets, TLC

\* ------------------------------------------------------------- bounds
\* Number of PlaybookRequest objects created in a run.
MaxReq == 3
\* Largest max_concurrent a RequestQueue is constructed with (>= 1).
MaxConcurrent == 2
\* _max_history (100 in the source) scaled to the size of the model.
MaxHistory == 2
\* Number of confirmation tokens created in a run.
MaxTokens == 2
\* Number of handle_confirmation calls made in a run.
MaxCalls == 3
\* The lengths of the listings (`[-10:]`, `[:5]` and `[-5:]` in the source)
\* scaled to the size of the model.
MaxListed == 2
MaxShown == 2
\* Number of times the clock is seen to move on between two events.
MaxTime == 2

\* ------------------------------------------------------------ domains
Ids == 1..MaxReq
Users == {"alice", "bob"}
\* (playbook, inventory) pairs; the strings may contain the ':' separator.
Targets ==
    { <<"deploy", "web">>, <<"backup", "db">>,
      <<"deploy", "web:eu">>, <<"deploy:web", "eu">> }
\* Two targets of the run-playbook command.
MainTargets == { <<"deploy", "web">>, <<"backup", "db">> }
\* Targets with different keys, one for each request.
ApiTargets == << <<"deploy", "web">>, <<"backup", "db">>, <<"deploy", "web:eu">>,
                 <<"backup", "db:eu">>, <<"restore", "db">> >>

\* RequestPriority
HIGH == 1
NORMAL == 2
LOW == 3
Priorities == {HIGH, NORMAL, LOW}

\* RequestStatus values; "none" marks an object not created yet.
QUEUED == "queued"
RUNNING == "running"
COMPLETED == "completed"
FAILED == "failed"
DUPLICATE == "duplicate"
CANCELLED == "cancelled"

\* None for an Optional timestamp
NoTime == -1

VARIABLES
    req,            \* id -> PlaybookRequest object
    now,            \* the last reading of datetime.now()
    max_concurrent, \* RequestQueue.max_concurrent
    pending,        \* RequestQueue._pending: the heap, a sequence of ids
    running,        \* RequestQueue._running: dedup_key -> id
    completed,      \* RequestQueue._completed: sequence of ids
    user_requests,  \* RequestQueue._user_requests: user_id -> sequence of ids
    all_requests,   \* RequestQueue._all_requests: the ids it is keyed by
    worker,         \* where the worker task is suspended
    cur,            \* the worker's local `request` (0: none)
    ret,            \* what the last submit/cancel call returned
    notify_failed,  \* the worker's last Notifier call raised (and was logged)
    executor_calls, \* id -> number of Executor calls made for the request
    pending_confirmations, \* mcp -> BaseMCP._pending_confirmations
    calls,          \* the handle_confirmation calls made, in order
    handler_runs    \* token -> number of _execute_confirmed invocations,
                    \* for the tokens created so far

qvars == <<pending, running, completed, user_requests, all_requests>>
\* The Request Queue and its worker
queue == <<req, now, max_concurrent, pending, running, completed,
           user_requests, all_requests, worker, cur, ret, notify_failed,
           executor_calls>>
\* The Confirmation Gate
gate == <<pending_confirmations, calls, handler_runs>>
vars == <<req, now, max_concurrent, pending, running, completed,
          user_requests, all_requests, worker, cur, ret, notify_failed,
          executor_calls,
          pending_confirmations, calls, handler_runs>>

\* ----------------------------------------------------- PlaybookRequest
NoRequest ==
    [user_id |-> "", playbook |-> "", inventory |-> "", priority |-> 0,
     submitted_at |-> NoTime, started_at |-> NoTime, completed_at |-> NoTime,
     status |-> "none", result |-> "none", error |-> FALSE, job_id |-> 0]

\* PlaybookRequest.create: the timestamp is read here, status defaults to QUEUED.
NewRequest(u, t, p, ts) ==
    [user_id |-> u, playbook |-> t[1], inventory |-> t[2], priority |-> p,
     submitted_at |-> ts, started_at |-> NoTime, completed_at |-> NoTime,
     status |-> QUEUED, result |-> "none", error |-> FALSE, job_id |-> 0]

\* sort_key = (priority.value, submitted.timestamp())
sort_key(r) == <<req[r].priority, req[r].submitted_at>>

\* Tuple comparison of two sort keys.
KeyLess(a, b) == a[1] < b[1] \/ (a[1] = b[1] /\ a[2] < b[2])

\* Faulty variant: the order looks at the time of submission only.
Less_ByTimeOnly(r, s) == req[r].submitted_at < req[s].submitted_at

\* r < s: the generated __lt__ compares sort_key only.
Less(r, s) == KeyLess(sort_key(r), sort_key(s))

\* dedup_key = f"{playbook}:{inventory}"
dedup_key(r) == req[r].playbook \o ":" \o req[r].inventory

\* The queue is wired with a Notifier before it is started (initialize_queue).
notify_callback == TRUE

\* --------------------------------------------------------------- heapq
\* Positions are 0-based as in Python; heap[pos + 1] is Python's heap[pos].

RECURSIVE SiftDownLoop(_, _, _, _)
SiftDownLoop(heap, startpos, pos, newitem) ==
    IF pos > startpos
    THEN LET parentpos == (pos - 1) \div 2
             parent == heap[parentpos + 1]
         IN  IF Less(newitem, parent)
             THEN SiftDownLoop([heap EXCEPT ![pos + 1] = parent],
                               startpos, parentpos, newitem)
             ELSE [heap EXCEPT ![pos + 1] = newitem]
    ELSE [heap EXCEPT ![pos + 1] = newitem]

\* heapq._siftdown(heap, startpos, pos)
siftdown(heap, startpos, pos) == SiftDownLoop(heap, startpos, pos, heap[pos + 1])

RECURSIVE SiftUpLoop(_, _, _, _)
SiftUpLoop(heap, startpos, pos, newitem) ==
    LET endpos == Len(heap)
        childpos == 2 * pos + 1
        rightpos == childpos + 1
    IN  IF childpos < endpos
        THEN LET c == IF rightpos < endpos
                         /\ ~Less(heap[childpos + 1], heap[rightpos + 1])
                      THEN rightpos ELSE childpos
             IN  SiftUpLoop([heap EXCEPT ![pos + 1] = heap[c + 1]],
                            startpos, c, newitem)
        ELSE siftdown([heap EXCEPT ![pos + 1] = newitem], startpos, pos)

\* heapq._siftup(heap, pos)
siftup(heap, pos) == SiftUpLoop(heap, pos, pos, heap[pos + 1])

\* Faulty variant: the item is appended and not sifted.
heappush_Append(heap, item) == Append(heap, item)

\* heapq.heappush(heap, item)
heappush(heap, item) == siftdown(Append(heap, item), 0, Len(heap))

\* Faulty variant: the head of the heap is read and left in it.
heappop_Peeks(heap) == <<heap[1], heap>>

\* heapq.heappop(heap): <<the item returned, the heap left>>
heappop(heap) ==
    LET lastelt == heap[Len(heap)]
        rest == SubSeq(heap, 1, Len(heap) - 1)
    IN  IF rest # <<>>
        THEN <<rest[1], siftup([rest EXCEPT ![1] = lastelt], 0)>>
        ELSE <<lastelt, rest>>

RECURSIVE HeapifyFrom(_, _)
HeapifyFrom(x, i) == IF i < 0 THEN x ELSE HeapifyFrom(siftup(x, i), i - 1)

\* heapq.heapify(x): for i in reversed(range(n // 2)): _siftup(x, i)
heapify(x) == HeapifyFrom(x, (Len(x) \div 2) - 1)

\* ------------------------------------------------------------ helpers
\* The ids of a sequence.
Range(s) == {s[i] : i \in 1..Len(s)}

\* [r for r in seq if keep(r)]
RECURSIVE FilterOut(_, _)
FilterOut(s, id) ==
    IF s = <<>> THEN <<>>
    ELSE IF Head(s) # id THEN <<Head(s)>> \o FilterOut(Tail(s), id)
         ELSE FilterOut(Tail(s), id)

\* list.index(x): the first position whose element == x, and the generated
\* __eq__ of PlaybookRequest compares sort_key only.  0-based.
index(heap, x) ==
    CHOOSE i \in 0..(Len(heap) - 1) :
        /\ sort_key(heap[i + 1]) = sort_key(x)
        /\ \A j \in 0..(i - 1) : sort_key(heap[j + 1]) # sort_key(x)

\* self._completed[-self._max_history:]
Trim(h) == IF Len(h) > MaxHistory THEN SubSeq(h, Len(h) - MaxHistory + 1, Len(h)) ELSE h

\* Faulty variant: the request is stored under its playbook alone.
RunningPut_UnderPlaybook(key, id) ==
    [k \in DOMAIN running \cup {req[id].playbook} |->
        IF k = req[id].playbook THEN id ELSE running[k]]

\* self._running[key] = id
RunningPut(key, id) ==
    [k \in DOMAIN running \cup {key} |-> IF k = key THEN id ELSE running[k]]

\* Faulty variant: the entry of a finished request is left in the map.
RunningDel_Keeps(key) == running

\* del self._running[key]
RunningDel(key) == [k \in DOMAIN running \ {key} |-> running[k]]

\* What submit/cancel return: (success, message).  A message of submit is kept
\* as the values formatted into it: `names_id` a request id, `names_user` a
\* user_name, `position` a queue position, `job` a job reference (0, "", 0, "":
\* the text holds none).  A message of cancel is kept as its kind, with the id
\* of the request it cancelled.
\* `kind` tells the messages apart.
\* The text returned by a query is kept in `lines` as the requests it lists.
NoRet == [op |-> "none", ok |-> FALSE, kind |-> "",
          names_id |-> 0, names_user |-> "", position |-> 0, job |-> "",
          lines |-> <<>>]

Ret(op, ok, kind, id, user, position, job) ==
    [op |-> op, ok |-> ok, kind |-> kind,
     names_id |-> id, names_user |-> user, position |-> position, job |-> job,
     lines |-> <<>>]

\* -------------------------------------------------- confirmation gate
\* The MCPs registered, in the order of MCPRegistry._mcps.
MCPs == {"awx-playbook", "etcd-awx"}
\* Tokens (uuid4, taken to be unique) are numbered in the order of creation.
Tokens == 1..MaxTokens
\* A token that create_confirmation never returned.
Forged == 0
\* An action of each MCP that is registered with requires_confirmation.
ConfirmedAction(m) == IF m = "awx-playbook" THEN "run-playbook" ELSE "sync"
\* What the post-approval handler ends with: an MCPResult (SUCCESS or ERROR)
\* or an exception.
HandlerOutcomes == {"success", "error", "raise"}

\* ---------------------------------------------------------------- Init
\* RequestQueue.__init__: empty collections, no worker task.
Init ==
    /\ req = [i \in Ids |-> NoRequest]
    /\ now = 0
    /\ max_concurrent \in 1..MaxConcurrent
    /\ pending = <<>>
    /\ running = <<>>
    /\ completed = <<>>
    /\ user_requests = [u \in Users |-> <<>>]
    /\ all_requests = {}
    /\ worker = "none"
    /\ cur = 0
    /\ ret = NoRet
    /\ notify_failed = FALSE
    /\ executor_calls = [i \in Ids |-> 0]
    /\ pending_confirmations = [m \in MCPs |-> <<>>]
    /\ calls = <<>>
    /\ handler_runs = <<>>

\* -------------------------------------------------------------- create
\* The objects created so far, and the id of the next one (ids are given in
\* the order of creation; uuid4 ids are taken to be unique).
Created == {i \in Ids : req[i].status # "none"}
Fresh == Cardinality(Created) + 1

\* PlaybookRequest.create(user_id, ..., playbook, inventory, priority): a new
\* object with a fresh id; the callers pass user_name = user_id.  `later`: the
\* clock has moved on since its last reading (else it reads the same value).
Create(u, t, p, later) ==
    /\ Created # Ids
    /\ now' = IF later THEN now + 1 ELSE now
    /\ req' = [req EXCEPT ![Fresh] = NewRequest(u, t, p, now')]
    /\ UNCHANGED <<max_concurrent, executor_calls, notify_failed, qvars, worker, cur, ret>>

\* ---------------------------------------------------------------- lock
\* Faulty variant: the 'starting' notification and the Executor are awaited
\* inside the first locked section of _process_next.
Locked_ThroughExecutor == worker \in {"notify_start", "exec"}

\* self._lock (asyncio.Lock).  submit, cancel, get_status, get_user_requests
\* and both `async with self._lock` blocks of _process_next hold it over
\* straight-line code only, with no await inside: it is held at none of the
\* places where a task is suspended.
LockedAt == {}
Locked == worker \in LockedAt

\* -------------------------------------------------------------- submit
\* Faulty variant: submit does not look at the running map.
DuplicateOfRunning_Never(r) == FALSE

\* `if request.dedup_key in self._running`
DuplicateOfRunning(r) == dedup_key(r) \in DOMAIN running

\* Faulty variant: submit does not look at the pending queue.
PendingDuplicates_None(r) == {}

\* `for pending in self._pending: if pending.dedup_key == request.dedup_key`:
\* the positions (1-based) of the sequence that hold the key
PendingDuplicates(r) ==
    {i \in 1..Len(pending) : dedup_key(pending[i]) = dedup_key(r)}

\* The rejection for a key that is running: it formats the running request's
\* user_name and `job_id or 'starting...'`, and no request id.
RunningRejection(r) ==
    LET running_req == running[dedup_key(r)]
    IN  Ret("submit", FALSE, "duplicate_running", 0,
            req[running_req].user_id, 0,
            IF req[running_req].job_id # 0 THEN "job" ELSE "starting...")

\* The rejection for a key that is queued: the first queued request with the
\* key, its id, its user_name and `self._pending.index(pending) + 1`.
PendingRejection(r) ==
    LET i == CHOOSE i \in PendingDuplicates(r) : \A j \in PendingDuplicates(r) : i <= j
        p == pending[i]
    IN  Ret("submit", FALSE, "already_queued", p,
            req[p].user_id, index(pending, p) + 1, "")

\* The acceptance: "Starting immediately..." when it is alone in the queue and
\* a slot is free, else "Request Queued" with position and running count.
Acceptance(r, position, running_count) ==
    IF position = 1 /\ running_count < max_concurrent
    THEN Ret("submit", TRUE, "submitted", r, "", 0, "")
    ELSE Ret("submit", TRUE, "queued", r, "", position, "")

\* Faulty variant: the request is indexed before the duplicate checks.
Reject_Indexed(r, message) ==
    /\ req' = [req EXCEPT ![r].status = DUPLICATE]
    /\ ret' = message
    /\ all_requests' = all_requests \cup {r}
    /\ user_requests' = [user_requests EXCEPT ![req[r].user_id] = Append(@, r)]
    /\ UNCHANGED <<pending, running, completed>>

\* `request.status = RequestStatus.DUPLICATE; return False, (...)`
Reject(r, message) ==
    /\ req' = [req EXCEPT ![r].status = DUPLICATE]
    /\ ret' = message
    /\ UNCHANGED qvars

\* Faulty variant: an accepted request is not entered in its requester's index.
Submit_NoUserIndex(r) ==
    /\ ~Locked
    /\ req[r].status = QUEUED
    /\ r \notin all_requests
    /\ IF DuplicateOfRunning(r)
       THEN Reject(r, RunningRejection(r))
       ELSE IF PendingDuplicates(r) # {}
       THEN Reject(r, PendingRejection(r))
       ELSE /\ pending' = heappush(pending, r)
            /\ all_requests' = all_requests \cup {r}
            /\ ret' = Acceptance(r, Len(pending'), Cardinality(DOMAIN running))
            /\ UNCHANGED <<req, running, completed, user_requests>>
    /\ UNCHANGED <<now, max_concurrent, executor_calls, notify_failed, worker, cur>>

\* RequestQueue.submit(request), for an object created and not submitted yet.
Submit(r) ==
    /\ ~Locked
    /\ req[r].status = QUEUED
    /\ r \notin all_requests
    /\ IF DuplicateOfRunning(r)
       THEN Reject(r, RunningRejection(r))
       ELSE IF PendingDuplicates(r) # {}
       THEN Reject(r, PendingRejection(r))
       ELSE /\ pending' = heappush(pending, r)
            /\ all_requests' = all_requests \cup {r}
            /\ user_requests' =
                   [user_requests EXCEPT ![req[r].user_id] = Append(@, r)]
            /\ ret' = Acceptance(r, Len(pending'), Cardinality(DOMAIN running))
            /\ UNCHANGED <<req, running, completed>>
    /\ UNCHANGED <<now, max_concurrent, executor_calls, notify_failed, worker, cur>>

\* -------------------------------------------------------------- cancel
\* Faulty variant: anyone may cancel.
CancelRefusal_NoOwnerCheck(request_id, user_id) ==
    IF request_id \notin all_requests THEN "not_found"
    ELSE IF req[request_id].status = RUNNING THEN "running"
    ELSE IF req[request_id].status # QUEUED THEN "not_queued"
    ELSE ""

\* Faulty variant: the status of the request is not looked at.
CancelRefusal_NoStatusCheck(request_id, user_id) ==
    IF request_id \notin all_requests THEN "not_found"
    ELSE IF req[request_id].user_id # user_id THEN "not_owner"
    ELSE ""

\* Why cancel refuses, "" when it does not (the early returns, in order).
CancelRefusal(request_id, user_id) ==
    IF request_id \notin all_requests THEN "not_found"
    ELSE IF req[request_id].user_id # user_id THEN "not_owner"
    ELSE IF req[request_id].status = RUNNING THEN "running"
    ELSE IF req[request_id].status # QUEUED THEN "not_queued"
    ELSE ""

\* Faulty variant: the list is filtered and not made a heap again.
RemovePending_NoHeapify(request_id) == FilterOut(pending, request_id)

\* Faulty variant: the request is marked and left in the list.
RemovePending_Keeps(request_id) == pending

\* `self._pending = [r for r in self._pending if r.id != request_id]` and
\* heapq.heapify(self._pending)
RemovePending(request_id) == heapify(FilterOut(pending, request_id))

\* RequestQueue.cancel(request_id, user_id)
Cancel(request_id, user_id) ==
    /\ ~Locked
    /\ IF CancelRefusal(request_id, user_id) # ""
       THEN /\ ret' = Ret("cancel", FALSE, CancelRefusal(request_id, user_id),
                          0, "", 0, "")
            /\ UNCHANGED <<req, qvars>>
       ELSE /\ pending' = RemovePending(request_id)
            /\ req' = [req EXCEPT ![request_id].status = CANCELLED]
            /\ completed' = Append(completed, request_id)
            /\ ret' = Ret("cancel", TRUE, "cancelled", request_id, "", 0, "")
            /\ UNCHANGED <<running, user_requests, all_requests>>
    /\ UNCHANGED <<now, max_concurrent, executor_calls, notify_failed, worker, cur>>

\* -------------------------------------------------------------- worker
\* The worker task is suspended at: "sleep" (asyncio.sleep, or not run yet),
\* "notify_start" (the 'starting' Notifier call), "exec" (the Executor call),
\* "notify_done" (the terminal Notifier call); "none": never started,
\* "stopped": cancelled by stop().
Live == {"sleep", "notify_start", "exec", "notify_done"}

\* RequestQueue.start(executor), called when no worker task is alive.
Start ==
    /\ worker \in {"none", "stopped"}
    /\ worker' = "sleep"
    /\ cur' = 0
    /\ UNCHANGED <<req, now, max_concurrent, executor_calls, notify_failed, qvars, ret>>

\* RequestQueue.stop(): cancels the task; CancelledError is raised at the await
\* the worker is suspended in, passes `except Exception` and ends the loop.
Stop ==
    /\ worker \in Live
    /\ worker' = "stopped"
    /\ cur' = 0
    /\ UNCHANGED <<req, now, max_concurrent, executor_calls, notify_failed, qvars, ret>>

\* Faulty variant: the requests of the history count against the ceiling.
HasCapacity_CountsHistory ==
    Cardinality(DOMAIN running) + Len(completed) < max_concurrent

\* Faulty variant: no ceiling.
HasCapacity_Always == TRUE

\* `len(self._running) >= self.max_concurrent` is false
HasCapacity == Cardinality(DOMAIN running) < max_concurrent

\* `if request.dedup_key in self._running` at dequeue
ConflictsAtDequeue(r) == dedup_key(r) \in DOMAIN running

\* `await self._executor(playbook=request.playbook, ...)` is reached for the
\* request: one more call of the Executor is made for it.
Invoked(request) == [executor_calls EXCEPT ![request] = @ + 1]

\* The first locked section of _process_next, entered when the sleep returns.
Dequeue ==
    /\ worker = "sleep"
    /\ IF ~HasCapacity \/ pending = <<>>
       THEN UNCHANGED <<req, qvars, worker, cur, executor_calls>>
       ELSE LET request == heappop(pending)[1]
            IN  /\ pending' = heappop(pending)[2]
                /\ IF ConflictsAtDequeue(request)
                   THEN /\ req' = [req EXCEPT ![request].status = DUPLICATE]
                        /\ completed' = Append(completed, request)
                        /\ UNCHANGED <<running, worker, cur, executor_calls>>
                   ELSE /\ req' = [req EXCEPT ![request].status = RUNNING,
                                              ![request].started_at = now]
                        /\ running' = RunningPut(dedup_key(request), request)
                        /\ cur' = request
                        /\ worker' = IF notify_callback THEN "notify_start" ELSE "exec"
                        /\ executor_calls' = IF notify_callback THEN executor_calls
                                             ELSE Invoked(request)
                        /\ UNCHANGED completed
                /\ UNCHANGED <<user_requests, all_requests>>
    /\ UNCHANGED <<now, max_concurrent, notify_failed, ret>>

\* What a Notifier call ends with: the message was sent, or an exception.
NotifierOutcomes == {"sent", "raise"}

\* Faulty variant: an exception of the 'starting' notification is not caught;
\* it ends the tick in the handler of _worker_loop.
NotifyStart_FailureEndsTick(outcome) ==
    /\ worker = "notify_start"
    /\ worker' = IF outcome = "raise" THEN "sleep" ELSE "exec"
    /\ cur' = IF outcome = "raise" THEN 0 ELSE cur
    /\ notify_failed' = (outcome = "raise")
    /\ executor_calls' = IF outcome = "raise" THEN executor_calls ELSE Invoked(cur)
    /\ UNCHANGED <<req, now, max_concurrent, qvars, ret>>

\* Faulty variant: after the 'starting' notification the execution is left to
\* a task of its own and the loop goes on to its sleep.
NotifyStart_SpawnsExecution(outcome) ==
    /\ worker = "notify_start"
    /\ worker' = "sleep"
    /\ cur' = 0
    /\ notify_failed' = (outcome = "raise")
    /\ executor_calls' = Invoked(cur)
    /\ UNCHANGED <<req, now, max_concurrent, qvars, ret>>

\* The 'starting' notification returns, or raises: `except Exception` logs
\* "Failed to notify start" and the tick goes on to the Executor call.
NotifyStart(outcome) ==
    /\ worker = "notify_start"
    /\ worker' = "exec"
    /\ notify_failed' = (outcome = "raise")
    /\ executor_calls' = Invoked(cur)
    /\ UNCHANGED <<req, now, max_concurrent, qvars, cur, ret>>

\* What the Executor call ends with: a result reporting success (with a job
\* reference in its data), a result reporting failure, or an exception.
Outcomes == {"success", "error", "raise"}

\* The request after the try block around the Executor call.
AfterExecutor(r, outcome) ==
    IF outcome = "raise"
    THEN [r EXCEPT !.status = FAILED, !.error = TRUE]
    ELSE [r EXCEPT !.result = outcome, !.status = COMPLETED,
                   !.job_id = IF outcome = "success" THEN 1 ELSE 0]

\* Faulty variant: the request is recorded and its slot is not given back.
Retire_KeepsSlot(request) ==
    /\ running' = running
    /\ completed' = Trim(Append(completed, request))

\* `del self._running[key]; self._completed.append(request)` and the trim
Retire(request) ==
    /\ running' = RunningDel(dedup_key(request))
    /\ completed' = Trim(Append(completed, request))

\* Faulty variant: the completion time is not recorded.
ExecutorDone_NoStamp(outcome) ==
    /\ worker = "exec"
    /\ req' = [req EXCEPT ![cur] = AfterExecutor(req[cur], outcome)]
    /\ Retire(cur)
    /\ worker' = IF notify_callback /\ outcome # "raise" THEN "notify_done" ELSE "sleep"
    /\ cur' = IF notify_callback /\ outcome # "raise" THEN cur ELSE 0
    /\ UNCHANGED <<now, max_concurrent, executor_calls, notify_failed, pending, user_requests,
                   all_requests, ret>>

\* Faulty variant: an exception of the Executor ends the worker task.
ExecutorDone_EndsLoop(outcome) ==
    /\ worker = "exec"
    /\ req' = [req EXCEPT ![cur] =
                   [AfterExecutor(req[cur], outcome) EXCEPT !.completed_at = now]]
    /\ Retire(cur)
    /\ worker' = IF outcome = "raise" THEN "stopped"
                 ELSE IF notify_callback THEN "notify_done" ELSE "sleep"
    /\ cur' = IF notify_callback /\ outcome # "raise" THEN cur ELSE 0
    /\ UNCHANGED <<now, max_concurrent, executor_calls, notify_failed, pending, user_requests, all_requests, ret>>

\* The Executor call ends; the second locked section follows without a
\* suspension.
ExecutorDone(outcome) ==
    /\ worker = "exec"
    /\ req' = [req EXCEPT ![cur] =
                   [AfterExecutor(req[cur], outcome) EXCEPT !.completed_at = now]]
    /\ Retire(cur)
    /\ worker' = IF notify_callback /\ outcome # "raise" THEN "notify_done" ELSE "sleep"
    /\ cur' = IF notify_callback /\ outcome # "raise" THEN cur ELSE 0
    /\ UNCHANGED <<now, max_concurrent, executor_calls, notify_failed, pending, user_requests, all_requests, ret>>

\* The terminal notification returns, or raises: `except Exception` logs
\* "Failed to notify completion" and the tick ends.
NotifyDone(outcome) ==
    /\ worker = "notify_done"
    /\ worker' = "sleep"
    /\ cur' = 0
    /\ notify_failed' = (outcome = "raise")
    /\ UNCHANGED <<req, now, max_concurrent, executor_calls, qvars, ret>>

\* ------------------------------------------------------------- queries
\* sorted(seq): a new list, ascending by __lt__, equal items in their order.
RECURSIVE SortedInsert(_, _)
SortedInsert(t, x) ==
    IF t = <<>> THEN <<x>>
    ELSE IF Less(x, Head(t)) THEN <<x>> \o t
         ELSE <<Head(t)>> \o SortedInsert(Tail(t), x)

RECURSIVE sorted(_)
sorted(seq) ==
    IF seq = <<>> THEN <<>>
    ELSE SortedInsert(sorted(SubSeq(seq, 1, Len(seq) - 1)), seq[Len(seq)])

\* seq[:n], seq[-n:] and reversed(seq)
FirstN(seq, n) == SubSeq(seq, 1, IF Len(seq) < n THEN Len(seq) ELSE n)
LastN(seq, n) == SubSeq(seq, IF Len(seq) < n THEN 1 ELSE Len(seq) - n + 1, Len(seq))
Reversed(seq) == [i \in 1..Len(seq) |-> seq[Len(seq) + 1 - i]]

\* A line of a listing: the id of a request and the status it is shown with.
Line(r) == <<r, req[r].status>>
LinesOf(seq) == [i \in 1..Len(seq) |-> Line(seq[i])]

\* The values of the running map, in the order of the keys' insertion; the
\* order is not kept by the model and an order of the ids stands for it.
RECURSIVE Ascending(_)
Ascending(S) ==
    IF S = {} THEN <<>>
    ELSE LET m == CHOOSE x \in S : \A y \in S : x <= y
         IN  <<m>> \o Ascending(S \ {m})

\* The text of get_status: the running requests, the first queued ones in
\* sorted order, the last of the history, most recent first.
StatusLines ==
    LinesOf(Ascending({running[k] : k \in DOMAIN running}))
        \o LinesOf(FirstN(sorted(pending), MaxShown))
        \o LinesOf(Reversed(LastN(completed, MaxShown)))

\* The text of get_user_requests: `for req_id in request_ids[-10:]`, the ids
\* that _all_requests holds, each as to_slack_message formats it.
UserLines(user_id) ==
    LinesOf(SelectSeq(LastN(user_requests[user_id], MaxListed),
                      LAMBDA id : id \in all_requests))

\* Faulty variant: the pending list is sorted in place for the listing.
GetStatus_SortsInPlace ==
    /\ pending' = sorted(pending)
    /\ ret' = [NoRet EXCEPT !.op = "status", !.ok = TRUE, !.lines = StatusLines]
    /\ UNCHANGED <<req, now, max_concurrent, executor_calls, notify_failed, running, completed, user_requests,
                   all_requests, worker, cur>>

\* RequestQueue.get_status()
GetStatus ==
    /\ ~Locked
    /\ ret' = [NoRet EXCEPT !.op = "status", !.ok = TRUE, !.lines = StatusLines]
    /\ UNCHANGED <<req, now, max_concurrent, executor_calls, notify_failed, qvars, worker, cur>>

\* RequestQueue.get_user_requests(user_id)
GetUserRequests(user_id) ==
    /\ ~Locked
    /\ ret' = [NoRet EXCEPT !.op = "history", !.ok = TRUE,
                            !.names_user = user_id,
                            !.kind = IF user_requests[user_id] = <<>>
                                     THEN "no_requests" ELSE "requests",
                            !.lines = UserLines(user_id)]
    /\ UNCHANGED <<req, now, max_concurrent, executor_calls, notify_failed, qvars, worker, cur>>

\* -------------------------------------------------------------- return
\* The caller of submit or cancel takes the returned (success, message).
Return ==
    /\ ret # NoRet
    /\ ret' = NoRet
    /\ UNCHANGED <<req, now, max_concurrent, executor_calls, notify_failed, qvars, worker, cur>>

\* -------------------------------------------------- confirmation gate
\* The tokens create_confirmation has returned so far.
Issued == 1..Len(handler_runs)

\* self._pending_confirmations[action_id] = {...}
PutConfirmation(m, t, entry) ==
    [pending_confirmations EXCEPT ![m] =
        [x \in DOMAIN @ \cup {t} |-> IF x = t THEN entry ELSE @[x]]]

\* Faulty variant: a resolve empties the map of the MCP.
PopConfirmation_Clears(m, t) == [pending_confirmations EXCEPT ![m] = <<>>]

\* Faulty variant: the entry is read and left in the map.
PopConfirmation_Keeps(m, t) == pending_confirmations

\* self._pending_confirmations.pop(action_id)
PopConfirmation(m, t) ==
    [pending_confirmations EXCEPT ![m] = [x \in DOMAIN @ \ {t} |-> @[x]]]

\* BaseMCP.create_confirmation(action, parameters, user_id, channel_id, ...)
\* of MCP m: a fresh token, the entry stored under it.
CreateConfirmation(m, action, u) ==
    /\ Len(handler_runs) < MaxTokens
    /\ pending_confirmations' =
           PutConfirmation(m, Len(handler_runs) + 1, [action |-> action, user_id |-> u])
    /\ handler_runs' = Append(handler_runs, 0)
    /\ UNCHANGED calls

\* `action_id in mcp._pending_confirmations` of the registry's loop
RegistryFinds(m, t) == t \in DOMAIN pending_confirmations[m]

\* Faulty variant: the gate trusts the registry's lookup.
GateKnows_Always(m, t) == TRUE

\* `action_id not in self._pending_confirmations` is false
GateKnows(m, t) == t \in DOMAIN pending_confirmations[m]

\* A call of handle_confirmation: its arguments, where it stands ("gate": about
\* to enter BaseMCP.handle_confirmation of `mcp`; "handler": awaiting
\* _execute_confirmed; "done": returned or raised), what it ended with, and
\* the arguments it gave to _execute_confirmed (<<>>: not invoked).
Call(t, confirmed, u, pc, m, result) ==
    [token |-> t, confirmed |-> confirmed, user_id |-> u, pc |-> pc,
     mcp |-> m, result |-> result, args |-> <<>>]

\* `self._execute_confirmed(action=pending["action"], ..., user_id=user_id,
\* ...)`: the action of the stored entry and the user_id of the call.
HandlerArgs(pending_entry, user_id) == <<pending_entry.action, user_id>>

\* MCPRegistry.handle_confirmation(action_id, confirmed, user_id) up to its
\* await: the MCP that holds the token is looked up; none: the error
\* "expired or was already processed".
BeginResolve(t, confirmed, u) ==
    /\ Len(calls) < MaxCalls
    /\ calls' = Append(calls,
           IF \E m \in MCPs : RegistryFinds(m, t)
           THEN Call(t, confirmed, u, "gate",
                     CHOOSE m \in MCPs : RegistryFinds(m, t), "")
           ELSE Call(t, confirmed, u, "done", "", "not_found"))
    /\ UNCHANGED <<pending_confirmations, handler_runs>>

\* Faulty variant: the answer is not looked at and the handler always runs.
GateStep_IgnoresAnswer(c) ==
    /\ calls[c].pc = "gate"
    /\ LET m == calls[c].mcp
           t == calls[c].token
       IN  IF ~GateKnows(m, t)
           THEN /\ calls' = [calls EXCEPT ![c].pc = "done", ![c].result = "not_found"]
                /\ UNCHANGED <<pending_confirmations, handler_runs>>
           ELSE /\ pending_confirmations' = PopConfirmation(m, t)
                /\ calls' = [calls EXCEPT
                                 ![c].pc = "handler",
                                 ![c].args = HandlerArgs(pending_confirmations[m][t],
                                                         calls[c].user_id)]
                /\ handler_runs' = [handler_runs EXCEPT ![t] = @ + 1]

\* BaseMCP.handle_confirmation up to its await: unknown token, the same error;
\* else the entry is removed, and the call returns CANCELLED or goes on to
\* _execute_confirmed.
GateStep(c) ==
    /\ calls[c].pc = "gate"
    /\ LET m == calls[c].mcp
           t == calls[c].token
       IN  IF ~GateKnows(m, t)
           THEN /\ calls' = [calls EXCEPT ![c].pc = "done", ![c].result = "not_found"]
                /\ UNCHANGED <<pending_confirmations, handler_runs>>
           ELSE /\ pending_confirmations' = PopConfirmation(m, t)
                /\ IF ~calls[c].confirmed
                   THEN /\ calls' = [calls EXCEPT ![c].pc = "done",
                                                  ![c].result = "cancelled"]
                        /\ UNCHANGED handler_runs
                   ELSE /\ calls' = [calls EXCEPT
                                        ![c].pc = "handler",
                                        ![c].args = HandlerArgs(
                                            pending_confirmations[m][t],
                                            calls[c].user_id)]
                        /\ handler_runs' = [handler_runs EXCEPT ![t] = @ + 1]

\* _execute_confirmed ends; its result, or its exception, is the call's.
HandlerDone(c, outcome) ==
    /\ calls[c].pc = "handler"
    /\ calls' = [calls EXCEPT ![c].pc = "done", ![c].result = outcome]
    /\ UNCHANGED <<pending_confirmations, handler_runs>>

\* What the agent shows for a call that has returned: handle_confirm sends
\* the result it got (_send_result); handle_cancel drops the result and
\* responds "Action cancelled.".
Responded(call) == IF call.confirmed THEN call.result ELSE "cancelled"

\* ---------------------------------------------------------------- Spec
\* Objects created and not passed to submit yet.
Unsubmitted == {r \in Ids : req[r].status = QUEUED /\ r \notin all_requests}

\* submit and cancel run to their return without a suspension, and so does the
\* caller up to its use of the result: no other step comes in between.
Returned == ret = NoRet

\* _handle_run_playbook creates the request and awaits submit with no
\* suspension between the two: nothing else runs in between.
Quiet == Returned /\ Unsubmitted = {}

\* The program as wired by AWXPlaybookMCP: every request is created with
\* priority NORMAL and submitted at once; requests arrive at different times.
Next ==
    \/ Quiet /\ \E u \in Users, t \in MainTargets : Create(u, t, NORMAL, TRUE) /\ UNCHANGED gate
    \/ Returned /\ \E r \in Ids : Submit(r) /\ UNCHANGED gate
    \/ Quiet /\ \E r \in Ids, u \in Users : Cancel(r, u) /\ UNCHANGED gate
    \/ Quiet /\ Start /\ UNCHANGED gate
    \/ Quiet /\ Stop /\ UNCHANGED gate
    \/ Quiet /\ Dequeue /\ UNCHANGED gate
    \/ Quiet /\ (\E n \in NotifierOutcomes : NotifyStart(n)) /\ UNCHANGED gate
    \/ Quiet /\ \E o \in Outcomes : ExecutorDone(o) /\ UNCHANGED gate
    \/ Quiet /\ (\E n \in NotifierOutcomes : NotifyDone(n)) /\ UNCHANGED gate
    \/ Return /\ UNCHANGED gate

Spec == Init /\ [][Next]_vars

\* One requester's requests under the scheduling of the event loop: the
\* Notifier and the Executor come back, with a result or an exception, however
\* many other calls the loop serves in between, and a coroutine that is ready
\* is run.
NextLoop ==
    \/ Quiet /\ \E t \in MainTargets : Create("alice", t, NORMAL, TRUE) /\ UNCHANGED gate
    \/ Returned /\ \E r \in Ids : Submit(r) /\ UNCHANGED gate
    \/ Quiet /\ \E r \in Ids : Cancel(r, "alice") /\ UNCHANGED gate
    \/ Quiet /\ Start /\ UNCHANGED gate
    \/ Quiet /\ Stop /\ UNCHANGED gate
    \/ Quiet /\ Dequeue /\ UNCHANGED gate
    \/ Quiet /\ (\E n \in NotifierOutcomes : NotifyStart(n)) /\ UNCHANGED gate
    \/ Quiet /\ \E o \in Outcomes : ExecutorDone(o) /\ UNCHANGED gate
    \/ Quiet /\ (\E n \in NotifierOutcomes : NotifyDone(n)) /\ UNCHANGED gate
    \/ Return /\ UNCHANGED gate

Returns ==
    /\ Quiet
    /\ \/ \E n \in NotifierOutcomes : NotifyStart(n) \/ NotifyDone(n)
       \/ \E o \in Outcomes : ExecutorDone(o)
    /\ UNCHANGED gate

SpecLoop ==
    /\ Init /\ [][NextLoop]_vars
    /\ SF_vars(Returns)
    /\ WF_vars(Returned /\ (\E r \in Ids : Submit(r)) /\ UNCHANGED gate)
    /\ WF_vars(Return /\ UNCHANGED gate)

\* RequestQueue used through its own interface: a request is created with any
\* priority, two requests may read the same time, and other calls and worker
\* steps may run between the creation of a request and its submission.  One
\* requester, who cancels queued requests; the Executor succeeds; the worker
\* is not stopped.
NextApi ==
    \/ Returned /\ UNCHANGED gate
                /\ \E p \in Priorities, later \in BOOLEAN :
                       Create("alice", ApiTargets[Fresh], p, later)
    \/ Returned /\ \E r \in Ids : Submit(r) /\ UNCHANGED gate
    \/ Returned /\ \E r \in Range(pending) : Cancel(r, "alice") /\ UNCHANGED gate
    \/ Returned /\ Start /\ UNCHANGED gate
    \/ Returned /\ Dequeue /\ UNCHANGED gate
    \/ Returned /\ NotifyStart("sent") /\ UNCHANGED gate
    \/ Returned /\ ExecutorDone("success") /\ UNCHANGED gate
    \/ Returned /\ NotifyDone("sent") /\ UNCHANGED gate
    \/ Return /\ UNCHANGED gate

SpecApi == Init /\ [][NextApi]_vars

\* The Confirmation Gate alone: tokens are created and resolved; the token
\* passed to a resolve is one that was created, or a forged one.
NextGate ==
    \/ \E m \in MCPs, u \in Users :
           CreateConfirmation(m, ConfirmedAction(m), u) /\ UNCHANGED queue
    \/ \E t \in Issued \cup {Forged}, confirmed \in BOOLEAN, u \in Users :
           BeginResolve(t, confirmed, u) /\ UNCHANGED queue
    \/ \E c \in 1..Len(calls) : GateStep(c) /\ UNCHANGED queue
    \/ \E c \in 1..Len(calls), o \in HandlerOutcomes :
           HandlerDone(c, o) /\ UNCHANGED queue

\* The queue stays as constructed (max_concurrent = 3, the default of get_queue,
\* is of no consequence here; the least value is taken).
InitGate == Init /\ max_concurrent = 1

SpecGate == InitGate /\ [][NextGate]_vars

\* RequestQueue with its queries: requests of two requesters with any
\* priority, each submitted as it is created; a requester cancels queued
\* requests of theirs; the Executor succeeds; the worker is not stopped.
NextQuery ==
    \/ /\ Quiet /\ UNCHANGED gate
       /\ \E u \in Users, p \in Priorities : Create(u, ApiTargets[Fresh], p, TRUE)
    \/ Returned /\ \E r \in Ids : Submit(r) /\ UNCHANGED gate
    \/ Quiet /\ \E r \in Range(pending) : Cancel(r, req[r].user_id) /\ UNCHANGED gate
    \/ Quiet /\ Start /\ UNCHANGED gate
    \/ Quiet /\ Dequeue /\ UNCHANGED gate
    \/ Quiet /\ NotifyStart("sent") /\ UNCHANGED gate
    \/ Quiet /\ ExecutorDone("success") /\ UNCHANGED gate
    \/ Quiet /\ NotifyDone("sent") /\ UNCHANGED gate
    \/ Quiet /\ GetStatus /\ UNCHANGED gate
    \/ Quiet /\ \E u \in Users : GetUserRequests(u) /\ UNCHANGED gate
    \/ Return /\ UNCHANGED gate

SpecQuery == Init /\ [][NextQuery]_vars

\* The scenario of three requests R1 (LOW), R2 (HIGH), R3 (NORMAL) for distinct
\* targets, created and submitted in that order at different times, on a queue
\* with max_concurrent = 1 whose worker is not stopped; the submits interleave
\* with the worker's steps in every way.
OrderPriorities == <<LOW, HIGH, NORMAL>>

NextOrder ==
    \/ /\ Quiet /\ Fresh <= Len(OrderPriorities)
       /\ \E u \in Users : Create(u, ApiTargets[Fresh], OrderPriorities[Fresh], TRUE)
       /\ UNCHANGED gate
    \/ Returned /\ \E r \in Ids : Submit(r) /\ UNCHANGED gate
    \/ Quiet /\ Start /\ UNCHANGED gate
    \/ Quiet /\ Dequeue /\ UNCHANGED gate
    \/ Quiet /\ NotifyStart("sent") /\ UNCHANGED gate
    \/ Quiet /\ \E o \in Outcomes : ExecutorDone(o) /\ UNCHANGED gate
    \/ Quiet /\ NotifyDone("sent") /\ UNCHANGED gate
    \/ Return /\ UNCHANGED gate

InitOrder == Init /\ max_concurrent = 1

SpecOrder == InitOrder /\ [][NextOrder]_vars

\* Time passes: the next datetime.now() reads a later value.
Tick ==
    /\ now < MaxTime
    /\ now' = now + 1
    /\ UNCHANGED <<req, max_concurrent, executor_calls, notify_failed, qvars, worker, cur, ret>>

\* RequestQueue and the clock: time may pass between any two events, and
\* datetime.now() in create, at the dequeue and at the retirement reads the
\* clock as it stands.  One requester, who cancels queued requests; the
\* Notifier delivers; the worker is not stopped.
NextClock ==
    \/ Quiet /\ Tick /\ UNCHANGED gate
    \/ Quiet /\ \E t \in MainTargets : Create("alice", t, NORMAL, FALSE) /\ UNCHANGED gate
    \/ Returned /\ \E r \in Ids : Submit(r) /\ UNCHANGED gate
    \/ Quiet /\ \E r \in Range(pending) : Cancel(r, "alice") /\ UNCHANGED gate
    \/ Quiet /\ Start /\ UNCHANGED gate
    \/ Quiet /\ Dequeue /\ UNCHANGED gate
    \/ Quiet /\ NotifyStart("sent") /\ UNCHANGED gate
    \/ Quiet /\ \E o \in Outcomes : ExecutorDone(o) /\ UNCHANGED gate
    \/ Quiet /\ NotifyDone("sent") /\ UNCHANGED gate
    \/ Return /\ UNCHANGED gate

SpecClock == Init /\ [][NextClock]_vars

\* A queue that is started and never stopped, serving one requester who
\* submits a few requests and cancels queued ones.  The event loop runs every
\* coroutine that is ready: the worker is started (initialize_queue), its sleep
\* ends, the Notifier and the Executor come back with a result or an
\* exception, and a call of submit or cancel runs to its return.
NextLive ==
    \/ Quiet /\ \E t \in MainTargets : Create("alice", t, NORMAL, TRUE) /\ UNCHANGED gate
    \/ Returned /\ \E r \in Ids : Submit(r) /\ UNCHANGED gate
    \/ Quiet /\ \E r \in Range(pending) : Cancel(r, "alice") /\ UNCHANGED gate
    \/ Quiet /\ Start /\ UNCHANGED gate
    \/ Quiet /\ Dequeue /\ UNCHANGED gate
    \/ Quiet /\ (\E n \in NotifierOutcomes : NotifyStart(n)) /\ UNCHANGED gate
    \/ Quiet /\ (\E o \in Outcomes : ExecutorDone(o)) /\ UNCHANGED gate
    \/ Quiet /\ (\E n \in NotifierOutcomes : NotifyDone(n)) /\ UNCHANGED gate
    \/ Return /\ UNCHANGED gate

WorkerStep ==
    /\ Quiet
    /\ \/ Start \/ Dequeue
       \/ \E n \in NotifierOutcomes : NotifyStart(n) \/ NotifyDone(n)
       \/ \E o \in Outcomes : ExecutorDone(o)
    /\ UNCHANGED gate

SpecLive ==
    /\ Init /\ [][NextLive]_vars
    /\ WF_vars(WorkerStep)
    /\ WF_vars(Returned /\ (\E r \in Ids : Submit(r)) /\ UNCHANGED gate)
    /\ WF_vars(Return /\ UNCHANGED gate)

\* RequestQueue with requests for any playbook and inventory strings, among
\* them strings that contain ':'.  One requester; the Notifier delivers, the
\* Executor succeeds, the worker is not stopped.
NextKeys ==
    \/ Quiet /\ \E t \in Targets : Create("alice", t, NORMAL, TRUE) /\ UNCHANGED gate
    \/ Returned /\ \E r \in Ids : Submit(r) /\ UNCHANGED gate
    \/ Quiet /\ Start /\ UNCHANGED gate
    \/ Quiet /\ Dequeue /\ UNCHANGED gate
    \/ Quiet /\ NotifyStart("sent") /\ UNCHANGED gate
    \/ Quiet /\ ExecutorDone("success") /\ UNCHANGED gate
    \/ Quiet /\ NotifyDone("sent") /\ UNCHANGED gate
    \/ Return /\ UNCHANGED gate

SpecKeys == Init /\ [][NextKeys]_vars

\* ======================================================================
\* Properties
\* ======================================================================
\* The dedup keys of the requests created so far.
AllKeys == {dedup_key(r) : r \in Created}

\* The places of the pending queue, and the entries of the running map, whose
\* request has key k.
PendingWithKey(k) == {i \in 1..Len(pending) : dedup_key(pending[i]) = k}
RunningWithKey(k) == {x \in DOMAIN running : dedup_key(running[x]) = k}

\* An accepted request with key k is QUEUED or RUNNING.
KeyHeld(k) ==
    \E h \in all_requests : req[h].status \in {QUEUED, RUNNING} /\ dedup_key(h) = k

\* This step is the submit of request r.
SubmittedNow(r) == r \in Unsubmitted /\ r \notin Unsubmitted'

\* This step is the worker taking b from the pending queue.
DequeuedNow(b) ==
    b \in Range(pending) /\ b \notin Range(pending') /\ req'[b].status # CANCELLED

\* x's submit was accepted before y's (both by the same requester).
SubmittedBefore(x, y) ==
    LET s == user_requests[req[x].user_id]
    IN  \E i, j \in 1..Len(s) : i < j /\ s[i] = x /\ s[j] = y

SameTarget(x, y) ==
    req[x].playbook = req[y].playbook /\ req[x].inventory = req[y].inventory

\* C1: in every reachable state at most one request with a given dedup key is
\* in the pending queue or the running map, and at most one accepted request
\* with that key has status QUEUED or RUNNING.
C1_OneHolderPerKey ==
    \A k \in AllKeys :
        /\ Cardinality(PendingWithKey(k)) + Cardinality(RunningWithKey(k)) <= 1
        /\ Cardinality({h \in all_requests : req[h].status \in {QUEUED, RUNNING}
                                             /\ dedup_key(h) = k}) <= 1

\* A request runs, a submit with its key was rejected, another request waits.
C1_Witness ==
    /\ pending # <<>>
    /\ \E x \in DOMAIN running, d \in Ids :
           req[d].status = DUPLICATE /\ dedup_key(d) = x

\* C2: a submit of a request whose key is held by a QUEUED or RUNNING request
\* returns accepted = false and leaves the pending queue, the running map, the
\* history, the id index and the per-requester index as they were.
C2_RejectedSubmitChangesNothing ==
    [][\A r \in Ids :
          (SubmittedNow(r) /\ KeyHeld(dedup_key(r)))
              => (ret'.op = "submit" /\ ~ret'.ok /\ UNCHANGED qvars)]_vars

\* A submit was just rejected while one request waits and another runs.
C2_Witness ==
    /\ ret.op = "submit" /\ ~ret.ok
    /\ pending # <<>> /\ DOMAIN running # {}

\* C3: in every reachable state the running map, and the set of requests with
\* status RUNNING, hold at most max_concurrent requests.
C3_RunningWithinCeiling ==
    /\ Cardinality(DOMAIN running) <= max_concurrent
    /\ Cardinality({r \in Ids : req[r].status = RUNNING}) <= max_concurrent

\* The ceiling is reached while a request waits and the worker is about to
\* look at the queue.
C3_Witness ==
    /\ Cardinality(DOMAIN running) = max_concurrent
    /\ pending # <<>>
    /\ worker = "sleep"

\* C4: the worker never takes a request from the pending queue while a request
\* of numerically lower priority is queued: of two queued requests the more
\* urgent one is dequeued first.
C4_MoreUrgentFirst ==
    [][\A a, b \in Range(pending) :
          DequeuedNow(b) => ~(req[a].priority < req[b].priority)]_vars

\* a was dequeued before b, which is less urgent and was submitted first.
C4_Witness ==
    \E a, b \in Ids :
        /\ req[a].status = RUNNING /\ b \in Range(pending)
        /\ req[a].priority < req[b].priority
        /\ SubmittedBefore(b, a)

\* C5: the worker never takes a request from the pending queue while a request
\* of the same priority with an earlier submitted_at is queued.
C5_EarlierFirstWithinPriority ==
    [][\A a, b \in Range(pending) :
          DequeuedNow(b) => ~(/\ req[a].priority = req[b].priority
                              /\ req[a].submitted_at < req[b].submitted_at)]_vars

\* a was dequeued before b of the same priority, which was created later and
\* submitted first; a third request was cancelled.
C5_Witness ==
    \E a, b, c \in Ids :
        /\ req[a].status = RUNNING /\ b \in Range(pending)
        /\ req[a].priority = req[b].priority
        /\ req[a].submitted_at < req[b].submitted_at
        /\ SubmittedBefore(b, a)
        /\ req[c].status = CANCELLED

C7_CancelFreesTarget ==
    [][/\ \A id \in Ids, u \in Users :
             (/\ Cancel(id, u)
              /\ id \in all_requests
              /\ req[id].user_id = u
              /\ req[id].status = QUEUED)
                 => /\ ret'.op = "cancel" /\ ret'.ok
                    /\ req'[id].status = CANCELLED
                    /\ id \notin Range(pending')
                    /\ completed' = Append(completed, id)
                    /\ ~KeyHeld(dedup_key(id))'
       /\ \A r \in Ids :
             (/\ SubmittedNow(r)
              /\ ~KeyHeld(dedup_key(r))
              /\ \E c \in Range(completed) :
                     req[c].status = CANCELLED /\ SameTarget(c, r))
                 => /\ ret'.op = "submit" /\ ret'.ok
                    /\ r \in Range(pending')]_vars

\* A submit for the target of a cancelled request was just accepted.
C7_Witness ==
    /\ ret.op = "submit" /\ ret.ok
    /\ \E c \in Range(completed) :
           req[c].status = CANCELLED /\ SameTarget(c, ret.names_id)

\* C10 (as claimed): with max_concurrent = 1, a submit for the target of an
\* accepted request R1 that is QUEUED or RUNNING is rejected with a message
\* that names R1's id and R1's requester.
C10_RejectionNamesHolder ==
    [][\A r1, r2 \in Ids :
          (/\ max_concurrent = 1
           /\ SubmittedNow(r2)
           /\ r1 \in all_requests
           /\ req[r1].status \in {QUEUED, RUNNING}
           /\ SameTarget(r1, r2))
              => (/\ ret'.op = "submit" /\ ~ret'.ok
                  /\ ret'.names_id = r1
                  /\ ret'.names_user = req[r1].user_id)]_vars

\* ---- Confirmation Gate
\* The gate has acted on token t for some call: the call went on to the
\* handler or returned an outcome other than NotFound.
ResolvedBy(c) ==
    \/ calls[c].pc = "handler"
    \/ calls[c].pc = "done" /\ calls[c].result # "not_found"
Resolved(t) == \E c \in 1..Len(calls) : calls[c].token = t /\ ResolvedBy(c)

\* C8: a resolve that begins once its token has been resolved, or with a token
\* that was never created, returns NotFound and invokes no handler, whatever
\* `approved` it passes; and so does a resolve that reaches the gate once its
\* token has been resolved.
C8_ResolvedTokenIsGone ==
    [][/\ (/\ Len(calls') = Len(calls) + 1
           /\ LET t == calls'[Len(calls')].token
              IN  Resolved(t) \/ t \notin Issued)
              => (/\ calls'[Len(calls')].pc = "done"
                  /\ calls'[Len(calls')].result = "not_found"
                  /\ handler_runs' = handler_runs)
       /\ \A c \in 1..Len(calls) :
              (/\ calls[c].pc = "gate"
               /\ Resolved(calls[c].token)
               /\ calls'[c].pc # "gate")
                 => (/\ calls'[c].pc = "done"
                     /\ calls'[c].result = "not_found"
                     /\ handler_runs' = handler_runs)]_vars

\* A token was cancelled, and an approval of it that came later got NotFound.
C8_Witness ==
    \E c1, c2 \in 1..Len(calls) :
        /\ c1 < c2 /\ calls[c1].token = calls[c2].token
        /\ calls[c1].result = "cancelled"
        /\ calls[c2].confirmed /\ calls[c2].pc = "done"
        /\ calls[c2].result = "not_found"

\* C9: for every token the post-approval handler is invoked at most once and at
\* most one call gets an outcome other than NotFound, however the calls for
\* the token interleave.
C9_AtMostOnce ==
    \A t \in Issued :
        /\ handler_runs[t] <= 1
        /\ Cardinality({c \in 1..Len(calls) : calls[c].token = t /\ ResolvedBy(c)}) <= 1

\* Two calls for one token are in flight: one awaits the handler, the other
\* has passed the registry's lookup and got NotFound from the gate.
C9_Witness ==
    \E c1, c2 \in 1..Len(calls) :
        /\ calls[c1].token = calls[c2].token
        /\ calls[c1].pc = "handler"
        /\ calls[c2].pc = "done" /\ calls[c2].result = "not_found"
        /\ calls[c2].mcp # ""

\* ---- Worker
\* C11: when the Executor raises, the request ends FAILED with its error kept,
\* leaves the running map (its key and a slot are free) and is the last entry
\* of the history, and the worker goes back to its sleep; a free slot stays
\* free until the worker's own tick; and a tick that finds a free slot and a
\* non-empty pending queue starts the first queued request.
C11_ExecutorFailureFreesSlot ==
    [][/\ ExecutorDone("raise")
             => /\ req'[cur].status = FAILED /\ req'[cur].error
                /\ dedup_key(cur) \notin DOMAIN running'
                /\ completed' # <<>> /\ completed'[Len(completed')] = cur
                /\ worker' = "sleep"
                /\ HasCapacity'
       /\ (HasCapacity /\ ~HasCapacity') => Dequeue
       /\ (Dequeue /\ HasCapacity /\ pending # <<>>)
             => LET next == heappop(pending)[1]
                IN  /\ req'[next].status = RUNNING
                    /\ running'[dedup_key(next)] = next
                    /\ next \notin Range(pending')
                    /\ worker' = "notify_start"]_vars

\* With one slot: a request failed with an error, and a request that was
\* queued at that time has been started since.
C11_Witness ==
    /\ max_concurrent = 1
    /\ \E f, n \in Ids :
           /\ req[f].status = FAILED /\ req[f].error
           /\ f \in Range(completed)
           /\ cur = n /\ req[n].status = RUNNING
           /\ req[n].submitted_at <= req[f].completed_at

\* The Executor has been invoked with request r (the worker is not stopped).
Executed(r) ==
    \/ req[r].status \in {COMPLETED, FAILED}
    \/ cur = r /\ worker = "exec"

\* C12 (as claimed): in the scenario of R1 (LOW), R2 (HIGH), R3 (NORMAL) the
\* Executor is invoked in the order R2, R3, R1 under every interleaving of the
\* submits with the worker's ticks.
C12_OrderUnderEveryInterleaving ==
    /\ Executed(1) => (Executed(2) /\ Executed(3))
    /\ Executed(3) => Executed(2)

\* C12 (amended): in that scenario the Executor is invoked with R2 before R3;
\* and when R1 has not been dequeued by the time R3 is created and submitted,
\* the Executor is invoked in the order R2, R3, R1.
C12_OrderWhenQueuedTogether ==
    /\ Executed(3) => Executed(2)
    /\ (/\ Executed(1)
        /\ req[3].status # "none"
        /\ req[1].started_at >= req[3].submitted_at)
          => (Executed(2) /\ Executed(3))

\* The three requests were queued together and the Executor has been invoked
\* with each of them, R1 last.
C12_Witness ==
    /\ Executed(1) /\ Executed(2) /\ Executed(3)
    /\ req[3].status # "none"
    /\ req[1].started_at >= req[3].submitted_at

\* The steps of the state machine of an accepted request.
AllowedTransition(a, b) ==
    \/ a = QUEUED /\ b \in {RUNNING, CANCELLED}
    \/ a = RUNNING /\ b \in {COMPLETED, FAILED}

\* C13: a request is QUEUED when it is accepted, and the status of an accepted
\* request changes only from QUEUED to RUNNING or CANCELLED and from RUNNING to
\* COMPLETED or FAILED; so COMPLETED, FAILED and CANCELLED are never left.
C13_StatusMachine ==
    [][\A r \in Ids :
          /\ (r \notin all_requests /\ r \in all_requests')
                => req'[r].status = QUEUED
          /\ (r \in all_requests /\ req'[r].status # req[r].status)
                => AllowedTransition(req[r].status, req'[r].status)]_vars

\* Each of the three terminal statuses has been reached by a request.
C13_Witness ==
    \E a, b, c \in all_requests :
        /\ req[a].status = COMPLETED
        /\ req[b].status = FAILED
        /\ req[c].status = CANCELLED

\* The worker is inside a tick, suspended in a call to the Notifier or the
\* Executor.
InTick == worker \in {"notify_start", "exec", "notify_done"}

\* C14: the worker task ends only by stop(); an exception of the Executor
\* leaves the worker at the sleep of its loop; and every tick, whatever the
\* Notifier and the Executor return or raise, comes back to the sleep from
\* which the next tick is taken, unless stop() is called.
C14_OnlyStopEndsLoop ==
    /\ [][/\ (worker \in Live /\ worker' \notin Live) => Stop
          /\ ExecutorDone("raise") => worker' = "sleep"]_vars
    /\ InTick ~> (worker \in {"sleep", "stopped"})

\* The Executor raised for a request and the worker has since started another.
C14_Witness ==
    /\ worker \in Live
    /\ \E f \in Ids : req[f].status = FAILED /\ req[f].error
    /\ cur # 0 /\ req[cur].status = RUNNING

\* C15 (as claimed): whenever the worker drives a request to COMPLETED or to
\* FAILED (the Executor returned or raised) and a Notifier is configured, the
\* worker goes on to the terminal notification for that request, which is in
\* the history by then.
C15_TerminalOutcomeNotified ==
    [][\A o \in Outcomes :
          (ExecutorDone(o) /\ notify_callback)
              => /\ req'[cur].status \in {COMPLETED, FAILED}
                 /\ cur \in Range(completed')
                 /\ worker' = "notify_done" /\ cur' = cur]_vars

\* C16 (as claimed): in every reachable state the history holds at most
\* max_history entries.
C16_HistoryBounded == Len(completed) <= MaxHistory

\* ---- Queries
\* C17 (as claimed): get_user_requests(u) lists at most the bound of requests,
\* they are the most recently submitted requests of u and of nobody else,
\* each with its current status, the most recent one first.
C17_LatestFirst ==
    ret.op = "history" =>
        LET u == ret.names_user
            L == ret.lines
        IN  /\ Len(L) <= MaxListed
            /\ {L[i][1] : i \in 1..Len(L)} = Range(LastN(user_requests[u], MaxListed))
            /\ \A i \in 1..Len(L) :
                   /\ req[L[i][1]].user_id = u
                   /\ L[i][2] = req[L[i][1]].status
            /\ \A i, j \in 1..Len(L) : i < j => SubmittedBefore(L[j][1], L[i][1])

\* C18: get_status and get_user_requests change neither the pending queue (the
\* list as it is laid out, hence the order of dequeue), nor the running map,
\* the history, the two indexes or any field of any request, nor the worker.
C18_QueriesReadOnly ==
    [][(GetStatus \/ \E u \in Users : GetUserRequests(u))
          => UNCHANGED <<req, qvars, max_concurrent, executor_calls, notify_failed, worker, cur>>]_vars

\* get_status has just listed a pending queue whose layout is not its sorted
\* order.
C18_Witness ==
    /\ ret.op = "status"
    /\ sorted(pending) # pending
    /\ Len(ret.lines) = MaxShown

\* ---- Confirmation Gate, the handler
\* C19 (as claimed): a call of resolve never ends with the exception of the
\* post-approval handler: it returns a result (success, an execution error,
\* cancelled or NotFound).
C19_HandlerErrorReported ==
    \A c \in 1..Len(calls) :
        calls[c].pc = "done"
            => calls[c].result \in {"success", "error", "cancelled", "not_found"}

\* C20 (as claimed): the post-approval handler is invoked with the action and
\* the requester that create stored for the token, whoever resolves it.
C20_HandlerGetsStoredRequester ==
    [][\A c \in 1..Len(calls) :
          (calls[c].pc = "gate" /\ calls'[c].pc = "handler")
              => LET stored == pending_confirmations[calls[c].mcp][calls[c].token]
                 IN  calls'[c].args = <<stored.action, stored.user_id>>]_vars

\* C21: a resolve with approved = false that finds its token pending returns
\* Cancelled and removes the entry; the post-approval handler is not invoked
\* for it, and the Request Queue and its worker are not touched.
C21_RejectionCancels ==
    [][\A c \in 1..Len(calls) :
          (/\ GateStep(c)
           /\ ~calls[c].confirmed
           /\ GateKnows(calls[c].mcp, calls[c].token))
              => /\ calls'[c].pc = "done" /\ calls'[c].result = "cancelled"
                 /\ calls'[c].args = <<>>
                 /\ \A m \in MCPs : calls[c].token \notin DOMAIN pending_confirmations'[m]
                 /\ handler_runs' = handler_runs
                 /\ UNCHANGED queue]_vars

\* A token was rejected: the call got Cancelled, the entry is gone and the
\* handler has not run for the token.
C21_Witness ==
    \E c \in 1..Len(calls) :
        /\ ~calls[c].confirmed
        /\ calls[c].pc = "done" /\ calls[c].result = "cancelled"
        /\ handler_runs[calls[c].token] = 0
        /\ \A m \in MCPs : calls[c].token \notin DOMAIN pending_confirmations[m]

\* ----------------------------------------------------------------------
\* The calls of handle_confirmation that were approved and found their token
\* pending: the ones the gate let through to _execute_confirmed.
Approved == {c \in 1..Len(calls) : calls[c].confirmed /\ calls[c].args # <<>>}

\* C22: a request is in the Request Queue only if a confirmation token was
\* created and a resolve of it was approved: every accepted request has an
\* approved resolve behind it.
C22_SubmitOnlyThroughGate ==
    all_requests # {} => (handler_runs # <<>> /\ Approved # {})

C24_StatusReflectsOutcome ==
    [][\A o \in Outcomes :
          ExecutorDone(o) =>
              IF o = "success"
              THEN req'[cur].status = COMPLETED
              ELSE req'[cur].status = FAILED /\ req'[cur].error]_vars

\* ----------------------------------------------------------------------
\* C25: a failure of the Notifier, for the 'starting' or for the terminal
\* notification, changes no request's status; after a failed 'starting'
\* notification the Executor is invoked for the request all the same, and the
\* request is taken out of the running map and appended to the history when
\* the Executor is done; a failed terminal notification leaves the request
\* retired and the worker at its sleep.
C25_NotifierFailureHarmless ==
    [][/\ (NotifyStart("raise") \/ NotifyDone("raise"))
              => /\ \A r \in Ids : req'[r].status = req[r].status
                 /\ UNCHANGED qvars
       /\ NotifyStart("raise")
              => /\ worker' = "exec" /\ cur' = cur
                 /\ running'[dedup_key(cur)] = cur
       /\ \A o \in Outcomes :
              (ExecutorDone(o) /\ notify_failed)
                  => /\ dedup_key(cur) \notin DOMAIN running'
                     /\ completed'[Len(completed')] = cur
       /\ NotifyDone("raise")
              => /\ worker' = "sleep"
                 /\ cur \in Range(completed')
                 /\ dedup_key(cur) \notin DOMAIN running']_vars

\* The 'starting' notification of a request failed, the Executor was invoked
\* and returned, and the request is in the history with its slot given back.
C25_Witness ==
    /\ notify_failed
    /\ worker = "notify_done"
    /\ req[cur].status = COMPLETED
    /\ cur \in Range(completed) /\ running = <<>>

\* ----------------------------------------------------------------------
\* The order of a tick's events, for the ends of the Executor call in `outs`:
\* the worker enters the 'starting' notification only by a dequeue that has
\* put the request in the running map with status RUNNING; it enters the
\* Executor call only from the 'starting' notification, for the same request,
\* which is in the running map; the end of the Executor call takes the request
\* out of the running map and appends it to the history; and the terminal
\* notification follows for the same request.
EventOrder(outs) ==
    /\ (worker # "notify_start" /\ worker' = "notify_start")
           => /\ Dequeue
              /\ req'[cur'].status = RUNNING
              /\ running'[dedup_key(cur')] = cur'
    /\ (worker # "exec" /\ worker' = "exec")
           => /\ worker = "notify_start" /\ cur' = cur
              /\ req'[cur].status = RUNNING
              /\ running'[dedup_key(cur)] = cur
    /\ \A o \in outs :
           ExecutorDone(o)
               => /\ dedup_key(cur) \in DOMAIN running
                  /\ dedup_key(cur) \notin DOMAIN running'
                  /\ completed'[Len(completed')] = cur
                  /\ worker' = "notify_done" /\ cur' = cur
    /\ (worker # "notify_done" /\ worker' = "notify_done")
           => /\ worker = "exec"
              /\ cur \in Range(completed')

\* C26 (as claimed): for every executed request the events occur in this
\* order: insertion in the running map with status RUNNING, the 'starting'
\* notification, the Executor call, removal from the running map with the
\* append to the history, the terminal notification; and the Executor is not
\* invoked for a request that is not in the running map.
C26_EventOrder == [][EventOrder(Outcomes)]_vars

\* ----------------------------------------------------------------------
\* A timestamp that is set keeps its value.
Kept(a, b) == a # NoTime => b = a

\* C27: submitted_at, started_at and completed_at of a request are each
\* assigned at most once and never reset; a started_at that is set is not
\* earlier than submitted_at, a completed_at that is set is not earlier than
\* started_at; and every request in the history with status COMPLETED or
\* FAILED has all three set.
C27_Timestamps ==
    /\ [][\A r \in Ids :
              /\ Kept(req[r].submitted_at, req'[r].submitted_at)
              /\ Kept(req[r].started_at, req'[r].started_at)
              /\ Kept(req[r].completed_at, req'[r].completed_at)]_vars
    /\ [](\A r \in Created :
              /\ req[r].submitted_at # NoTime
              /\ req[r].started_at # NoTime
                     => req[r].started_at >= req[r].submitted_at
              /\ req[r].completed_at # NoTime
                     => /\ req[r].started_at # NoTime
                        /\ req[r].completed_at >= req[r].started_at)
    /\ [](\A r \in Range(completed) :
              req[r].status \in {COMPLETED, FAILED}
                  => /\ req[r].submitted_at # NoTime
                     /\ req[r].started_at # NoTime
                     /\ req[r].completed_at # NoTime)

\* A request in the history that waited and then ran for some time, while a
\* later request is running.
C27_Witness ==
    \E r \in Range(completed) :
        /\ req[r].status \in {COMPLETED, FAILED}
        /\ req[r].submitted_at < req[r].started_at
        /\ req[r].started_at < req[r].completed_at
        /\ \E q \in Created : /\ req[q].status = RUNNING
                              /\ req[q].started_at >= req[r].completed_at

\* ----------------------------------------------------------------------
\* The statuses a request ends in.
Terminal == {COMPLETED, FAILED, CANCELLED}

\* C28: with finitely many submissions, an Executor that always returns or
\* raises, a worker loop that is scheduled fairly and no stop(), every
\* accepted request eventually has a terminal status, and from some time on
\* the pending queue and the running map are empty.
C28_EveryAcceptedRequestEnds ==
    /\ \A r \in Ids : (r \in all_requests) ~> (req[r].status \in Terminal)
    /\ <>[](pending = <<>> /\ running = <<>>)

\* All the requests of the run were accepted and have ended, by the Executor's
\* return, by its exception and by a cancellation, and nothing is left.
C28_Witness ==
    /\ Cardinality(all_requests) = MaxReq
    /\ {req[r].status : r \in all_requests} = Terminal
    /\ pending = <<>> /\ running = <<>>

\* ----------------------------------------------------------------------
\* C29: under every interleaving of submit, cancel and the worker's steps,
\* the re-validation of the dedup key at the dequeue finds no conflict: no
\* accepted request is ever given the status DUPLICATE, and a request enters
\* the history only as executed (COMPLETED, FAILED) or CANCELLED.
C29_NoConflictAtDequeue ==
    /\ [](\A r \in all_requests : req[r].status # DUPLICATE)
    /\ [](\A i \in 1..Len(completed) : req[completed[i]].status \in Terminal)
    /\ [][(Dequeue /\ HasCapacity /\ pending # <<>>)
              => /\ ~ConflictsAtDequeue(heappop(pending)[1])
                 /\ req'[heappop(pending)[1]].status = RUNNING]_vars

\* A request was dequeued and is running for a target that an earlier request,
\* now in the history, was executed for, while another request waits.
C29_Witness ==
    \E r \in all_requests, q \in Range(completed) :
        /\ req[r].status = RUNNING /\ running[dedup_key(r)] = r
        /\ q # r /\ dedup_key(q) = dedup_key(r)
        /\ req[q].status \in {COMPLETED, FAILED}
        /\ pending # <<>>

\* ----------------------------------------------------------------------
\* The requests of the running map.
InRunning == {running[k] : k \in DOMAIN running}

\* C30: admission is atomic: in every state that a submit, a cancel, a query
\* or a step of the worker can see, each request of the pending queue and of
\* the running map is in the id index and in its requester's index, and the
\* indexes hold accepted requests only (none that is not created, was
\* rejected, or is not yet through submit); the step that queues a request
\* also enters it in both indexes.
C30_AdmissionAtomic ==
    /\ [](\A r \in Range(pending) \cup InRunning :
              /\ r \in all_requests
              /\ r \in Range(user_requests[req[r].user_id]))
    /\ [](\A r \in all_requests :
              /\ req[r].status \notin {"none", DUPLICATE}
              /\ req[r].status = QUEUED => r \in Range(pending)
              /\ r \in Range(user_requests[req[r].user_id]))
    /\ [](\A u \in Users : \A i \in 1..Len(user_requests[u]) :
              /\ user_requests[u][i] \in all_requests
              /\ req[user_requests[u][i]].user_id = u)
    /\ [][\A r \in Ids :
              (r \in Range(pending') /\ r \notin Range(pending))
                  => /\ SubmittedNow(r) /\ ret'.ok
                     /\ r \notin all_requests /\ r \in all_requests'
                     /\ r \notin Range(user_requests[req[r].user_id])
                     /\ r \in Range(user_requests'[req[r].user_id])]_vars

\* One requester's request waits, the other's runs, both are indexed, and a
\* request that was rejected is in no index.
C30_Witness ==
    \E p \in Range(pending), q \in InRunning, d \in Created :
        /\ req[p].user_id # req[q].user_id
        /\ {p, q} \subseteq all_requests
        /\ req[d].status = DUPLICATE /\ d \notin all_requests
        /\ \A u \in Users : d \notin Range(user_requests[u])

\* ----------------------------------------------------------------------
\* The 1-based place of r among the queued requests in dequeue order, which
\* is the number get_status lists it under.
Rank(r, heap) == CHOOSE i \in 1..Len(heap) : sorted(heap)[i] = r

\* C31 (as claimed): the position that submit reports, for the new request
\* in "Request Queued" and for the conflicting queued request in "Already
\* Queued", is that request's 1-based rank in dequeue order.
C31_PositionIsRank ==
    [][\A r \in Ids :
          Submit(r) =>
              /\ ret'.kind = "queued" => ret'.position = Rank(r, pending')
              /\ ret'.kind = "already_queued"
                     => ret'.position = Rank(ret'.names_id, pending)]_vars

AllHeld == UNION {DOMAIN pending_confirmations[m] : m \in MCPs}

\* This step is create_confirmation returning a new token.
CreatedNow == Len(handler_runs') = Len(handler_runs) + 1

\* C33: creating or resolving a token does not affect another: create adds
\* one entry, under a token that no entry has or had, and leaves the entries
\* there as they are; a resolve of a pending token removes the entry of that
\* token and no other; no other step touches an entry; and a token that has
\* not been resolved has its entry, and so can be resolved, whatever other
\* creates and resolves have taken place.
C33_TokensIndependent ==
    /\ [][/\ \A m \in MCPs : \A t \in DOMAIN pending_confirmations[m] :
                 \/ /\ t \in DOMAIN pending_confirmations'[m]
                    /\ pending_confirmations'[m][t] = pending_confirmations[m][t]
                 \/ \E c \in 1..Len(calls) :
                        GateStep(c) /\ calls[c].token = t /\ calls[c].mcp = m
          /\ CreatedNow
                 => LET t == Len(handler_runs')
                    IN  /\ t \notin AllHeld /\ t \notin Issued
                        /\ AllHeld' = AllHeld \cup {t}
                        /\ Cardinality({m \in MCPs :
                               t \in DOMAIN pending_confirmations'[m]}) = 1
          /\ ~CreatedNow => AllHeld' \subseteq AllHeld
          /\ \A c \in 1..Len(calls) :
                 (GateStep(c) /\ GateKnows(calls[c].mcp, calls[c].token))
                     => AllHeld' = AllHeld \ {calls[c].token}]_vars
    /\ [](\A t \in Issued :
              ~Resolved(t)
                  => Cardinality({m \in MCPs :
                         t \in DOMAIN pending_confirmations[m]}) = 1)

\* Two tokens of one MCP: one was resolved, a later resolve of it and a resolve
\* of a forged token got NotFound, and the other token still has its entry.
C33_Witness ==
    \E t1, t2 \in Issued, c \in 1..Len(calls), m \in MCPs :
        /\ t1 # t2
        /\ calls[c].token = t1 /\ ResolvedBy(c) /\ calls[c].mcp = m
        /\ t1 \notin AllHeld
        /\ ~Resolved(t2) /\ t2 \in DOMAIN pending_confirmations[m]
        /\ \E d \in 1..Len(calls) :
               d # c /\ calls[d].pc = "done" /\ calls[d].result = "not_found"

\* ----------------------------------------------------------------------
\* C34 (as claimed): when stop() is called while the worker is suspended in
\* the Executor call of a RUNNING request, the request is not left stranded:
\* once stop() has returned it has a terminal status and is out of the running
\* map, its dedup key and its slot being free for a queue started again.
C34_StopRetiresRunning ==
    [][(Stop /\ worker = "exec")
           => /\ req'[cur].status \in Terminal
              /\ dedup_key(cur) \notin DOMAIN running'
              /\ ~KeyHeld(dedup_key(cur))']_vars

\* ----------------------------------------------------------------------
\* C35: in every state the pending queue, the running map and the history
\* are pairwise disjoint and agree with the statuses: a request of the
\* pending queue is QUEUED, one of the running map is RUNNING and stored
\* under its own dedup key, one of the history has a terminal status; and
\* every accepted request that is QUEUED is in the pending queue, and every
\* one that is RUNNING is in the running map under its own dedup key.
C35_CollectionsAgreeWithStatus ==
    /\ \A i \in 1..Len(pending) : req[pending[i]].status = QUEUED
    /\ \A k \in DOMAIN running :
           req[running[k]].status = RUNNING /\ dedup_key(running[k]) = k
    /\ \A i \in 1..Len(completed) : req[completed[i]].status \in Terminal
    /\ Range(pending) \cap InRunning = {}
    /\ Range(pending) \cap Range(completed) = {}
    /\ InRunning \cap Range(completed) = {}
    /\ Cardinality(Range(pending)) = Len(pending)
    /\ Cardinality(Range(completed)) = Len(completed)
    /\ \A r \in all_requests :
           /\ req[r].status = QUEUED => r \in Range(pending)
           /\ req[r].status = RUNNING
                  => /\ dedup_key(r) \in DOMAIN running
                     /\ running[dedup_key(r)] = r

\* One request waits, one runs, and one is in the history.
C35_Witness ==
    /\ pending # <<>> /\ running # <<>> /\ completed # <<>>
    /\ worker = "exec"
    /\ \E r \in Range(completed) : req[r].status = COMPLETED

\* ----------------------------------------------------------------------
\* C36: the Executor is called at most once for each accepted request, and
\* not at all for a request whose cancel succeeded or that submit rejected,
\* however cancels interleave with the worker's dequeues; the request the
\* worker is in the Executor call of has had its one call.
C36_ExecutedAtMostOnce ==
    /\ \A r \in Ids :
           /\ executor_calls[r] <= 1
           /\ r \notin all_requests => executor_calls[r] = 0
           /\ req[r].status \in {CANCELLED, DUPLICATE, QUEUED} => executor_calls[r] = 0
           /\ req[r].status \in {COMPLETED, FAILED} => executor_calls[r] = 1
    /\ worker = "exec" => executor_calls[cur] = 1

\* Of three requests one was executed, one was cancelled while it waited and
\* one was rejected by submit.
C36_Witness ==
    \E a, b, c \in Created :
        /\ req[a].status \in {COMPLETED, FAILED} /\ executor_calls[a] = 1
        /\ req[b].status = CANCELLED /\ b \in all_requests
        /\ req[c].status = DUPLICATE
        /\ executor_calls[b] = 0 /\ executor_calls[c] = 0

\* ----------------------------------------------------------------------
\* C37: submit accepts a request exactly when no request with its dedup key
\* is in the pending queue or in the running map; the two hold only requests
\* that are QUEUED and RUNNING, so a key is free once its holder is COMPLETED,
\* FAILED or CANCELLED, and a request of the history never makes a submit for
\* its target fail.
C37_AcceptedIffKeyFree ==
    /\ [][\A r \in Ids :
              Submit(r) => /\ ret'.op = "submit"
                           /\ ret'.ok <=> ~KeyHeld(dedup_key(r))
                           /\ ret'.ok <=> r \in Range(pending')]_vars
    /\ [](\A k \in DOMAIN running : req[running[k]].status = RUNNING)
    /\ [](\A i \in 1..Len(pending) : req[pending[i]].status = QUEUED)

\* A submit was accepted for a target for which one request was executed and
\* another was cancelled before, both being in the history.
C37_Witness ==
    /\ ret.op = "submit" /\ ret.ok
    /\ \E a, b \in Range(completed) :
           /\ req[a].status \in {COMPLETED, FAILED}
           /\ req[b].status = CANCELLED
           /\ dedup_key(a) = dedup_key(ret.names_id)
           /\ dedup_key(b) = dedup_key(ret.names_id)

\* ----------------------------------------------------------------------
\* C38 (as claimed): two requests have the same dedup key if and only if they
\* have the same playbook and the same inventory, whatever the strings are,
\* so that a submit is rejected only on account of a queued or running
\* request for the same pair.
C38_SameKeyIffSameTarget ==
    /\ [](\A x, y \in Created : dedup_key(x) = dedup_key(y) <=> SameTarget(x, y))
    /\ [][\A r \in Ids :
              (Submit(r) /\ ~ret'.ok)
                  => \E q \in Range(pending) \cup InRunning : SameTarget(q, r)]_vars

\* ----------------------------------------------------------------------
\* C39 (as claimed): what is shown for a click on Cancel is the gate's
\* outcome: "Action cancelled." only when the resolve returned Cancelled, and
\* the NotFound error when the token had been resolved before.
C39_CancelShowsOutcome ==
    \A c \in 1..Len(calls) :
        (calls[c].pc = "done" /\ ~calls[c].confirmed)
            => /\ Responded(calls[c]) = calls[c].result
               /\ Responded(calls[c]) = "cancelled" <=> calls[c].result = "cancelled"

====
